---- MODULE Spec2Model ----
(***************************************************************************)
(* Model of novadocker/virt/docker/utils.py:                               *)
(*   - get_fc_hbas / get_fc_wwpns / get_fc_wwnns: Fibre Channel HBA        *)
(*     discovery from the text printed by `systool -c fc_host -v`;         *)
(*   - ConfigDriveBuilder: staged config drive files and scoped cleanup.   *)
(* Python strings are sequences of characters, so that split, strip and    *)
(* replace are computed character by character as Python does.  A          *)
(* character is the one-character string of itself; a character that a     *)
(* string of this language cannot hold is the string of its Python escape, *)
(* as "\\x0b" for the vertical tab.                                        *)
(* Python's None is the empty tuple None and a present value x is          *)
(* Some(x) = <<x>>.                                                        *)
(***************************************************************************)
EXTENDS Integers, Sequences, FiniteSets, TLC

VARIABLES
    execResult,   \* what execute('systool', ...) does when it is called
    called,       \* which module function the caller invoked ("" before)
    ret,          \* how that call ended: returned value or raised exception
    mdfiles,      \* ConfigDriveBuilder.mdfiles: list of (path, data)
    imagefile,    \* ConfigDriveBuilder.imagefile: None or Some(path)
    fs,           \* the filesystem: path -> node
    scope,        \* position of the `with ConfigDriveBuilder(...)` block
    inflight,     \* exception raised by the body of the with block, if any
    exitCleanups, \* number of cleanup() calls made by __exit__
    propagated,   \* exception that left the with statement, if any
    drive,        \* how the make_drive call ended, and what it was given
    last,         \* the builder operation that ran last ("" before any)
    before        \* the filesystem as it was when that operation began

hbaVars == <<execResult, called, ret>>
driveVars == <<mdfiles, imagefile, fs, scope, inflight, exitCleanups,
               propagated, drive, last, before>>
vars == <<execResult, called, ret, mdfiles, imagefile, fs, scope, inflight,
          exitCleanups, propagated, drive, last, before>>

None == << >>
Some(x) == <<x>>

(***************************************************************************)
(* Python string primitives used by the source.                            *)
(***************************************************************************)

\* Characters removed by str.strip() with no argument: those for which
\* str.isspace() holds.
Whitespace ==
    {" ", "\t", "\n", "\r", "\f", "\\x0b", "\\x1c", "\\x1d", "\\x1e", "\\x1f",
     "\\x85", "\\xa0", "\\u1680", "\\u2000", "\\u2001", "\\u2002", "\\u2003",
     "\\u2004", "\\u2005", "\\u2006", "\\u2007", "\\u2008", "\\u2009",
     "\\u200a", "\\u2028", "\\u2029", "\\u202f", "\\u205f", "\\u3000"}

RECURSIVE LStrip(_)
LStrip(s) ==
    IF s # << >> /\ Head(s) \in Whitespace THEN LStrip(Tail(s)) ELSE s

RECURSIVE RStrip(_)
RStrip(s) ==
    IF s # << >> /\ s[Len(s)] \in Whitespace
    THEN RStrip(SubSeq(s, 1, Len(s) - 1))
    ELSE s

\* str.strip()
Strip(s) == RStrip(LStrip(s))

\* str.split(sep) for a one-character separator: n separators give n+1 parts,
\* and the empty string gives [''].
RECURSIVE Split(_, _)
Split(s, sep) ==
    IF \A i \in 1..Len(s) : s[i] # sep
    THEN <<s>>
    ELSE LET i == CHOOSE j \in 1..Len(s) :
                      s[j] = sep /\ \A k \in 1..(j - 1) : s[k] # sep
         IN  <<SubSeq(s, 1, i - 1)>> \o Split(SubSeq(s, i + 1, Len(s)), sep)

\* str.replace(old, new) for a non-empty old: every non-overlapping
\* occurrence, scanning from the left; replaced text is not scanned again.
RECURSIVE Replace(_, _, _)
Replace(s, old, new) ==
    IF Len(s) < Len(old) THEN s
    ELSE IF SubSeq(s, 1, Len(old)) = old
         THEN new \o Replace(SubSeq(s, Len(old) + 1, Len(s)), old, new)
         ELSE <<Head(s)>> \o Replace(Tail(s), old, new)

\* sep.join(parts); used to build the text execute() prints.
RECURSIVE Join(_, _)
Join(parts, sep) ==
    IF parts = << >> THEN << >>
    ELSE IF Len(parts) = 1 THEN parts[1]
         ELSE parts[1] \o sep \o Join(Tail(parts), sep)

(***************************************************************************)
(* get_fc_hbas, get_fc_wwpns, get_fc_wwnns                                 *)
(***************************************************************************)

\* nova.cmd.rootwrap.RC_NOEXECFOUND, the literal of `exc.exit_code == 96`.
RC_NOEXECFOUND == 96
\* errno.ENOENT
ENOENT == 2

\* Outcomes of a call: a returned value, or an exception leaving the function.
\* warned records whether LOG.warn("systool is not installed") was called.
NoExc == [type |-> "", code |-> 0, key |-> ""]
Return(v, w) == [kind |-> "return", value |-> v, exc |-> NoExc, warned |-> w]
Raise(e) == [kind |-> "raise", value |-> << >>, exc |-> e, warned |-> FALSE]
NotCalled == [kind |-> "none", value |-> << >>, exc |-> NoExc, warned |-> FALSE]

\* What execute() does: returns (out, err), or raises.
Ok(o) == [kind |-> "ok", code |-> 0, out |-> o]
Fails(type, code) == [kind |-> type, code |-> code, out |-> None]
ExcOf(er) == [type |-> er.kind, code |-> er.code, key |-> ""]

\* A dict is a function from keys to values; {} is the empty function.
EmptyDict == << >>
DictSet(d, k, v) ==
    [x \in (DOMAIN d) \cup {k} |-> IF x = k THEN v ELSE d[x]]

\* State of the parsing loop before its first iteration (lines 73-75).
LoopInit == [hbas |-> << >>, hba |-> EmptyDict, lastline |-> None]

\* Variant: a single blank line is taken for a boundary.
IsBoundary_single(line, lastline) == line = << >>

\* `line == '' and lastline == ''` (line 79)
IsBoundary(line, lastline) == line = << >> /\ lastline = Some(<< >>)

\* Variant: the record is appended but not begun anew.
Flush_keep(st) ==
    IF DOMAIN st.hba # {}
    THEN [st EXCEPT !.hbas = Append(st.hbas, st.hba)]
    ELSE st

\* Lines 80-82: a non-empty record is appended and a new one begun.
Flush(st) ==
    IF DOMAIN st.hba # {}
    THEN [st EXCEPT !.hbas = Append(st.hbas, st.hba), !.hba = EmptyDict]
    ELSE st

\* Variant: the line is split at its first `=` only (split('=', 1)).
Assign_first(hba, line) ==
    IF \E i \in 1..Len(line) : line[i] = "="
    THEN LET i == CHOOSE j \in 1..Len(line) :
                      line[j] = "=" /\ \A k \in 1..(j - 1) : line[k] # "="
             key == Replace(Strip(SubSeq(line, 1, i - 1)), <<" ">>, << >>)
             value == Strip(SubSeq(line, i + 1, Len(line)))
         IN  DictSet(hba, key, Replace(value, <<"\"">>, << >>))
    ELSE hba

\* Lines 84-88: the record after a line that is no boundary.
Assign(hba, line) ==
    LET val == Split(line, "=") IN
    IF Len(val) = 2
    THEN LET key == Replace(Strip(val[1]), <<" ">>, << >>)
             value == Strip(val[2])
         IN  DictSet(hba, key, Replace(value, <<"\"">>, << >>))
    ELSE hba

\* One iteration of `for line in lines` (lines 76-89).
LoopBody(st, rawline) ==
    LET line == Strip(rawline) IN
    IF IsBoundary(line, st.lastline)
    THEN [Flush(st) EXCEPT !.lastline = Some(line)]
    ELSE [st EXCEPT !.hba = Assign(st.hba, line), !.lastline = Some(line)]

\* The loop state after the first n of `lines`.
RECURSIVE ParseLoop(_, _)
ParseLoop(lines, n) ==
    IF n = 0 THEN LoopInit
    ELSE LoopBody(ParseLoop(lines, n - 1), lines[n])

\* lines = out.split('\n'); lines = lines[2:]
BodyLines(text) ==
    LET lines == Split(text, "\n") IN SubSeq(lines, 3, Len(lines))

\* Variant: the exception of execute() is raised again.
OnExecError_reraise(er) == Raise(ExcOf(er))

\* The except clauses of get_fc_hbas (lines 53-65); an exception of another
\* type is not caught.
OnExecError(er) ==
    IF er.kind = "ProcessExecutionError"
    THEN Return(<< >>, er.code = RC_NOEXECFOUND)
    ELSE IF er.kind = "OSError"
    THEN Return(<< >>, er.code = ENOENT)
    ELSE Raise(ExcOf(er))

\* Variant: `not out`, true of '' as well.
NoOutput_falsy(out) == out = None \/ out = Some(<< >>)

\* `out is None` (line 67)
NoOutput(out) == out = None

\* get_fc_hbas() when execute() behaves as er.
get_fc_hbas(er) ==
    IF er.kind # "ok"
    THEN OnExecError(er)
    ELSE IF NoOutput(er.out)
    THEN Raise([type |-> "RuntimeError", code |-> 0, key |-> ""])
    ELSE LET lines == BodyLines(er.out[1])
         IN  Return(ParseLoop(lines, Len(lines)).hbas, FALSE)

\* Dictionary keys the extractors read.
K_port_state == <<"p", "o", "r", "t", "_", "s", "t", "a", "t", "e">>
K_port_name == <<"p", "o", "r", "t", "_", "n", "a", "m", "e">>
K_node_name == <<"n", "o", "d", "e", "_", "n", "a", "m", "e">>
S_Online == <<"O", "n", "l", "i", "n", "e">>
S_0x == <<"0", "x">>

KeyError(name) == [type |-> "KeyError", code |-> 0, key |-> name]

\* .replace('0x', '') (lines 104 and 120)
StripHex(v) == Replace(v, S_0x, << >>)

\* Variant: a record without the attribute is skipped (hba.get).
WwnStep_get(hba, field, fieldName) ==
    IF K_port_state \notin DOMAIN hba
    THEN [kind |-> "raise", value |-> << >>, exc |-> KeyError("port_state")]
    ELSE IF hba[K_port_state] = S_Online /\ field \in DOMAIN hba
    THEN [kind |-> "append", value |-> StripHex(hba[field]), exc |-> NoExc]
    ELSE [kind |-> "skip", value |-> << >>, exc |-> NoExc]

\* The body of `for hba in hbas` (lines 103-105, 119-121) for one record:
\* what it appends, if anything, or the KeyError of a missing key.
WwnStep(hba, field, fieldName) ==
    IF K_port_state \notin DOMAIN hba
    THEN [kind |-> "raise", value |-> << >>, exc |-> KeyError("port_state")]
    ELSE IF hba[K_port_state] = S_Online
    THEN IF field \notin DOMAIN hba
         THEN [kind |-> "raise", value |-> << >>, exc |-> KeyError(fieldName)]
         ELSE [kind |-> "append", value |-> StripHex(hba[field]),
               exc |-> NoExc]
    ELSE [kind |-> "skip", value |-> << >>, exc |-> NoExc]

\* `for hba in hbas` from record i on, with the list built so far.
RECURSIVE WwnLoop(_, _, _, _, _)
WwnLoop(hbas, i, acc, field, fieldName) ==
    IF i > Len(hbas) THEN Return(acc, FALSE)
    ELSE LET r == WwnStep(hbas[i], field, fieldName) IN
         IF r.kind = "raise" THEN Raise(r.exc)
         ELSE WwnLoop(hbas, i + 1,
                      IF r.kind = "append" THEN Append(acc, r.value)
                      ELSE acc,
                      field, fieldName)

\* Lines 98-107 and 114-123 after `hbas = get_fc_hbas()`.
Extract(r, field, fieldName) ==
    IF r.kind = "raise" THEN r
    ELSE LET w == WwnLoop(r.value, 1, << >>, field, fieldName)
         IN  IF w.kind = "raise" THEN w ELSE Return(w.value, r.warned)

get_fc_wwpns(er) == Extract(get_fc_hbas(er), K_port_name, "port_name")

get_fc_wwnns(er) == Extract(get_fc_hbas(er), K_node_name, "node_name")

(***************************************************************************)
(* Inputs: what execute() may do.                                          *)
(***************************************************************************)

MaxBody == 5
MaxBlocks == 2

SeqsUpTo(S, n) == UNION {[1..k -> S] : k \in 0..n}

RECURSIVE Flatten(_)
Flatten(ss) == IF ss = << >> THEN << >> ELSE Head(ss) \o Flatten(Tail(ss))

\* A line `key = "value"` as systool prints it.
KV(k, v) == k \o <<" ", "=", " ", "\"">> \o v \o <<"\"">>

L_hdr == KV(<<"C">>, <<"f">>)
L_a1 == <<"\t", "\\x0b">> \o KV(<<"a">>, <<"1">>) \o <<"\\xa0", " ">>
L_a3 == <<"a", "=", "\"", "3", "\"">>
L_bc2 == KV(<<"b", " ", "c">>, <<"2">>)
L_aeq == KV(<<"a">>, <<"x", "=", "y">>)
L_junk == <<"z">>
L_blank == << >>
L_space == <<" ", "\\x0b">>

\* Texts made of two header lines and any lines after them, and the texts
\* with fewer than two lines.
ParserLines == {L_blank, L_space, L_a1, L_bc2, L_aeq, L_junk}
ParserTexts ==
    {<< >>, L_hdr}
    \cup {Join(<<L_hdr, L_hdr>> \o b, <<"\n">>) :
              b \in SeqsUpTo(ParserLines, MaxBody)}

\* Texts made of two header lines and blocks that each end in two blank
\* lines, with and without a final newline.
BlockSet ==
    {<<L_a1>>, <<L_bc2>>, <<L_a1, L_bc2>>, <<L_a1, L_a3>>, <<L_aeq>>,
     <<L_bc2, L_aeq>>}
BlockLines(bs) == Flatten([i \in 1..Len(bs) |-> bs[i] \o <<L_blank, L_blank>>])
BlockTexts ==
    UNION {{Join(<<L_hdr, L_hdr>> \o BlockLines(bs), <<"\n">>),
            Join(<<L_hdr, L_hdr>> \o BlockLines(bs) \o <<L_blank>>, <<"\n">>)} :
               bs \in SeqsUpTo(BlockSet, MaxBlocks)}

\* Texts of fc_host blocks: each attribute absent or one of two values.
V_Offline == <<"O", "f", "f">>
PortStates == {None, Some(S_Online), Some(V_Offline)}
PortNames == {None, Some(<<"0", "x", "1">>), Some(<<"0", "x", "2", "0", "x", "3">>)}
NodeNames == {None, Some(<<"0", "x", "4">>), Some(<<"5", "0", "x", "6">>)}
AttrLine(k, v) == IF v = None THEN << >> ELSE <<KV(k, v[1])>>
WwnBlocks ==
    {AttrLine(K_port_name, pn) \o AttrLine(K_port_state, ps)
        \o AttrLine(K_node_name, nn) :
            pn \in PortNames, ps \in PortStates, nn \in NodeNames}
WwnTexts ==
    {Join(<<L_hdr, L_hdr>> \o BlockLines(bs), <<"\n">>) :
         bs \in SeqsUpTo(WwnBlocks, MaxBlocks)}

\* execute() raising, or returning no stdout at all.
Failures ==
    {Fails("ProcessExecutionError", c) : c \in {1, RC_NOEXECFOUND}}
    \cup {Fails("OSError", c) : c \in {ENOENT, 13}}
    \cup {Fails("ValueError", 0), Ok(None)}

(***************************************************************************)
(* Calls of the module functions.                                          *)
(***************************************************************************)

CallGetFcHbas ==
    /\ called = ""
    /\ called' = "get_fc_hbas"
    /\ ret' = get_fc_hbas(execResult)
    /\ UNCHANGED <<execResult, driveVars>>

CallGetFcWwpns ==
    /\ called = ""
    /\ called' = "get_fc_wwpns"
    /\ ret' = get_fc_wwpns(execResult)
    /\ UNCHANGED <<execResult, driveVars>>

CallGetFcWwnns ==
    /\ called = ""
    /\ called' = "get_fc_wwnns"
    /\ ret' = get_fc_wwnns(execResult)
    /\ UNCHANGED <<execResult, driveVars>>

(***************************************************************************)
(* ConfigDriveBuilder                                                      *)
(*                                                                         *)
(* A path is the sequence of its components.  Entry paths are relative     *)
(* (metadata_for_config_drive yields paths inside the drive), so           *)
(* os.path.join(basedir, path) is basedir followed by path.                *)
(***************************************************************************)

MaxEntries == 3

\* A node of the filesystem; the contents of a file are a string, a sequence
\* of characters.
Absent == [type |-> "absent", data |-> << >>]
Dir == [type |-> "dir", data |-> << >>]
File(d) == [type |-> "file", data |-> d]

TargetDirs == {<<"t">>}
EntryPaths == {<<"a">>, <<"d", "b">>, <<"a", "c">>}
Entries ==
    {<<<<"a">>, <<"x", "y">>>>, <<<<"a">>, <<"z">>>>,
     <<<<"d", "b">>, <<"x", "y">>>>, <<<<"a", "c">>, <<"z">>>>}
ImagePath == <<"img">>

Prefixes(p) == {SubSeq(p, 1, k) : k \in 1..Len(p)}

\* os.path.join(basedir, path) for a relative path
join(basedir, path) == basedir \o path

\* os.path.dirname(filepath)
dirname(filepath) == SubSeq(filepath, 1, Len(filepath) - 1)

AllPaths ==
    {ImagePath}
    \cup UNION {Prefixes(join(t, p)) : t \in TargetDirs, p \in EntryPaths}

\* fileutils.ensure_tree(d): os.makedirs, an existing directory is fine; it
\* raises when a component of d is a file.
CanEnsureTree(f, d) == \A q \in Prefixes(d) : f[q].type # "file"
ensure_tree(f, d) == [q \in DOMAIN f |-> IF q \in Prefixes(d) THEN Dir ELSE f[q]]

\* open(filepath, 'wb') raises when filepath is a directory; otherwise it
\* creates the file or truncates the one that is there.
CanOpen(f, filepath) == f[filepath].type # "dir"

\* fileutils.ensure_tree(d) when the mkdir of d's component number depth
\* fails: os.makedirs has made the directories above it.
ensure_tree_until(f, d, depth) ==
    [q \in DOMAIN f |->
        IF q \in Prefixes(d) /\ Len(q) < depth THEN Dir ELSE f[q]]

\* I/O failures a call may meet besides those the tree itself causes: the
\* mkdir of one component of the directory, the open, or the write.  A
\* failing write (f.write, or the flush when the with statement closes the
\* file) leaves in the file the first `written` characters of the payload:
\* none, some, or all of them.
NoFault == [step |-> "none", depth |-> 0, written |-> 0]
FaultsFor(dir, data) ==
    {[step |-> "mkdir", depth |-> d, written |-> 0] : d \in 1..Len(dir)}
    \cup {[step |-> "open", depth |-> 0, written |-> 0]}
    \cup {[step |-> "write", depth |-> 0, written |-> w] : w \in 0..Len(data)}

\* Variant: the file is opened for appending ('ab').
add_file_append(f, basedir, path, data, fault) ==
    LET filepath == join(basedir, path)
        dir == dirname(filepath)
    IN  IF ~CanEnsureTree(f, dir)
        THEN [fs |-> f, ok |-> FALSE]
        ELSE IF fault.step = "mkdir"
        THEN [fs |-> ensure_tree_until(f, dir, fault.depth), ok |-> FALSE]
        ELSE LET f1 == ensure_tree(f, dir) IN
             IF fault.step = "open" \/ ~CanOpen(f1, filepath)
             THEN [fs |-> f1, ok |-> FALSE]
             ELSE IF fault.step = "write"
             THEN [fs |-> [f1 EXCEPT ![filepath] =
                              IF @.type = "file"
                              THEN File(@.data \o SubSeq(data, 1, fault.written))
                              ELSE File(SubSeq(data, 1, fault.written))],
                   ok |-> FALSE]
             ELSE [fs |-> [f1 EXCEPT ![filepath] =
                              IF @.type = "file" THEN File(@.data \o data)
                              ELSE File(data)],
                   ok |-> TRUE]

\* _add_file(basedir, path, data), where fault names the step that meets an
\* I/O failure (NoFault: no failure).  ok is FALSE when the call raises.  A
\* component of the directory that is a file makes ensure_tree raise with
\* nothing made, the directories above that file being there already.
add_file(f, basedir, path, data, fault) ==
    LET filepath == join(basedir, path)
        dir == dirname(filepath)
    IN  IF ~CanEnsureTree(f, dir)
        THEN [fs |-> f, ok |-> FALSE]
        ELSE IF fault.step = "mkdir"
        THEN [fs |-> ensure_tree_until(f, dir, fault.depth), ok |-> FALSE]
        ELSE LET f1 == ensure_tree(f, dir) IN
             IF fault.step = "open" \/ ~CanOpen(f1, filepath)
             THEN [fs |-> f1, ok |-> FALSE]
             ELSE IF fault.step = "write"
             THEN [fs |-> [f1 EXCEPT ![filepath] =
                              File(SubSeq(data, 1, fault.written))],
                   ok |-> FALSE]
             ELSE [fs |-> [f1 EXCEPT ![filepath] = File(data)], ok |-> TRUE]

\* _write_md_files(basedir) from entry i on: `for data in self.mdfiles`.
\* failed is the index of the entry whose _add_file raised, 0 when none did.
RECURSIVE write_md_files(_, _, _, _, _, _)
write_md_files(f, basedir, files, i, failAt, fault) ==
    IF i > Len(files) THEN [fs |-> f, failed |-> 0]
    ELSE LET r == add_file(f, basedir, files[i][1], files[i][2],
                           IF i = failAt THEN fault ELSE NoFault)
         IN  IF r.ok
             THEN write_md_files(r.fs, basedir, files, i + 1, failAt, fault)
             ELSE [fs |-> r.fs, failed |-> i]

\* What the unlink of fileutils.delete_if_exists may meet: nothing, or a
\* refusal by the system (EACCES, EPERM, ...).
UnlinkFaults == {"none", "refused"}

\* fileutils.delete_if_exists(path): os.unlink(path), where only "no such
\* file" is passed over.  A refused unlink, and a path that is a directory,
\* raise OSError and leave the path as it was.  ok is FALSE when it raises.
delete_if_exists(f, path, fault) ==
    IF fault = "refused" \/ f[path].type = "dir"
    THEN [fs |-> f, ok |-> FALSE]
    ELSE [fs |-> [f EXCEPT ![path] = Absent], ok |-> TRUE]

\* cleanup(): `if self.imagefile:` deletes the image; an exception of
\* delete_if_exists leaves cleanup().
cleanup(img, f, fault) ==
    IF img # None THEN delete_if_exists(f, img[1], fault)
    ELSE [fs |-> f, ok |-> TRUE]

\* Variant: cleanup() runs on every exit.
ExitCallsCleanup_always(exctype) == TRUE

\* __exit__(exctype, excval, exctb): whether it calls cleanup(), and whether
\* what it returns is true, which would make the with statement swallow the
\* exception (`return False`, and None after cleanup()).
ExitCallsCleanup(exctype) == exctype = None
ExitSuppresses(exctype) == FALSE

NoDrive ==
    [kind |-> "none", failed |-> 0, path |-> << >>, files |-> << >>,
     failAt |-> 0, fault |-> NoFault]

\* The body of the with block can run builder operations: the builder is not
\* used after an exception has left the body.
Usable == inflight = None /\ scope # "exited"

\* add_instance_metadata(instance_md), also what __init__ does with instance_md
AddInstanceMetadata ==
    /\ Usable
    /\ \E md \in SeqsUpTo(Entries, MaxEntries) :
          /\ md # << >>
          /\ Len(mdfiles) + Len(md) <= MaxEntries
          /\ mdfiles' = mdfiles \o md
    /\ last' = "add_instance_metadata"
    /\ before' = fs
    /\ UNCHANGED <<hbaVars, imagefile, fs, scope, inflight, exitCleanups,
                   propagated, drive>>

\* __enter__
Enter ==
    /\ scope = "outside"
    /\ scope' = "inside"
    /\ last' = "enter"
    /\ before' = fs
    /\ UNCHANGED <<hbaVars, mdfiles, imagefile, fs, inflight, exitCleanups,
                   propagated, drive>>

\* make_drive(path); an exception it raises inside the with block is in
\* flight from then on.
MakeDrive ==
    /\ Usable
    /\ drive = NoDrive
    /\ \E path \in TargetDirs, failAt \in 0..Len(mdfiles) :
       \E fault \in IF failAt = 0 THEN {NoFault}
                    ELSE FaultsFor(dirname(join(path, mdfiles[failAt][1])),
                                   mdfiles[failAt][2]) :
          /\ LET r == write_md_files(fs, path, mdfiles, 1, failAt, fault) IN
             /\ fs' = r.fs
             /\ drive' = [kind |-> IF r.failed = 0 THEN "return" ELSE "raise",
                          failed |-> r.failed, path |-> path,
                          files |-> mdfiles, failAt |-> failAt,
                          fault |-> fault]
             /\ inflight' = IF r.failed # 0 /\ scope = "inside"
                            THEN Some("IOError") ELSE inflight
    /\ last' = "make_drive"
    /\ before' = fs
    /\ UNCHANGED <<hbaVars, mdfiles, imagefile, scope, exitCleanups,
                   propagated>>

\* The image-building step, which is no part of this file, records the image
\* it produced in self.imagefile.
RecordImage ==
    /\ Usable
    /\ imagefile = None
    /\ imagefile' = Some(ImagePath)
    /\ fs' = [fs EXCEPT ![ImagePath] = File(<<"i", "m", "g">>)]
    /\ last' = "record_image"
    /\ before' = fs
    /\ UNCHANGED <<hbaVars, mdfiles, scope, inflight, exitCleanups,
                   propagated, drive>>

\* Some other statement of the with block raises.
BodyRaises ==
    /\ scope = "inside"
    /\ inflight = None
    /\ inflight' = Some("Error")
    /\ last' = "body_raises"
    /\ before' = fs
    /\ UNCHANGED <<hbaVars, mdfiles, imagefile, fs, scope, exitCleanups,
                   propagated, drive>>

\* cleanup() called by the builder's owner; an exception it raises inside
\* the with block is in flight from then on.
Cleanup ==
    /\ inflight = None
    /\ \E fault \in UnlinkFaults :
          LET r == cleanup(imagefile, fs, fault) IN
          /\ fs' = r.fs
          /\ last' = IF r.ok THEN "cleanup" ELSE "cleanup_raised"
          /\ inflight' = IF ~r.ok /\ scope = "inside"
                         THEN Some("OSError") ELSE inflight
    /\ before' = fs
    /\ UNCHANGED <<hbaVars, mdfiles, imagefile, scope, exitCleanups,
                   propagated, drive>>

\* The with statement ends: __exit__ gets the exception in flight, or None.
\* An exception of cleanup() leaves __exit__ and so the with statement.
Exit ==
    /\ scope = "inside"
    /\ scope' = "exited"
    /\ IF ExitCallsCleanup(inflight)
       THEN \E fault \in UnlinkFaults :
               LET r == cleanup(imagefile, fs, fault) IN
               /\ fs' = r.fs
               /\ exitCleanups' = exitCleanups + 1
               /\ propagated' = IF r.ok THEN None ELSE Some("OSError")
       ELSE /\ UNCHANGED <<fs, exitCleanups>>
            /\ propagated' = IF ExitSuppresses(inflight) THEN None
                             ELSE inflight
    /\ last' = "exit"
    /\ before' = fs
    /\ UNCHANGED <<hbaVars, mdfiles, imagefile, inflight, drive>>

(***************************************************************************)
(* Specifications.                                                         *)
(***************************************************************************)

With(f, p, node) == [f EXCEPT ![p] = node]
EmptyFs == [p \in AllPaths |-> Absent]
TFs == With(EmptyFs, <<"t">>, Dir)
InitialFs ==
    {EmptyFs,
     With(TFs, <<"t", "a">>, File(<<"o", "l", "d">>)),
     With(With(TFs, <<"t", "d">>, Dir), <<"t", "d", "b">>, File(<<"o", "l", "d">>)),
     With(TFs, <<"t", "d">>, File(<<"o", "l", "d">>)),
     With(TFs, <<"t", "a">>, Dir)}

\* ConfigDriveBuilder() just constructed (lines 129-134).
NewBuilder ==
    /\ mdfiles = << >>
    /\ imagefile = None
    /\ scope = "outside"
    /\ inflight = None
    /\ exitCleanups = 0
    /\ propagated = None
    /\ drive = NoDrive
    /\ last = ""

NoCall ==
    /\ called = ""
    /\ ret = NotCalled

\* HBA discovery over the parser texts.
Init ==
    /\ execResult \in {Ok(Some(t)) : t \in ParserTexts \cup BlockTexts}
                          \cup Failures
    /\ NoCall
    /\ NewBuilder
    /\ fs = EmptyFs
    /\ before = EmptyFs

Next == CallGetFcHbas \/ CallGetFcWwpns \/ CallGetFcWwnns

Spec == Init /\ [][Next]_vars

\* HBA discovery over the fc_host texts.
InitWwn ==
    /\ execResult \in {Ok(Some(t)) : t \in WwnTexts} \cup Failures
    /\ NoCall
    /\ NewBuilder
    /\ fs = EmptyFs
    /\ before = EmptyFs

SpecWwn == InitWwn /\ [][Next]_vars

\* A ConfigDriveBuilder and the filesystem it writes to.
InitDrive ==
    /\ execResult = Ok(None)
    /\ NoCall
    /\ NewBuilder
    /\ fs \in InitialFs
    /\ before = fs

NextDrive ==
    \/ AddInstanceMetadata
    \/ Enter
    \/ MakeDrive
    \/ RecordImage
    \/ BodyRaises
    \/ Cleanup
    \/ Exit

SpecDrive == InitDrive /\ [][NextDrive]_vars

(***************************************************************************)
(* Properties of HBA discovery.                                            *)
(***************************************************************************)

IsOk == execResult.kind = "ok"
HasText == IsOk /\ execResult.out # None
Text == execResult.out[1]
ToolNotFound ==
    \/ execResult.kind = "ProcessExecutionError"
       /\ execResult.code = RC_NOEXECFOUND
    \/ execResult.kind = "OSError" /\ execResult.code = ENOENT
OtherExecFailure ==
    /\ execResult.kind \in {"ProcessExecutionError", "OSError"}
    /\ ~ToolNotFound

\* C1: when execute() fails with a ProcessExecutionError whose exit code is
\* not 96, or an OSError whose errno is not ENOENT, get_fc_hbas raises that
\* same exception and returns no sequence.
C1_OtherFailurePropagates ==
    (called = "get_fc_hbas" /\ OtherExecFailure)
        => ret = Raise(ExcOf(execResult))

\* C2 as stated: when execute() succeeds with stdout '' or None, get_fc_hbas
\* raises the no-adapters error.
C2_EmptyOrAbsentRaises ==
    (called = "get_fc_hbas" /\ IsOk
        /\ execResult.out \in {None, Some(<< >>)})
        => (ret.kind = "raise" /\ ret.exc.type = "RuntimeError")

\* C2 amended: stdout None makes get_fc_hbas raise the no-adapters error;
\* stdout '' makes it return the empty sequence.
C2_AbsentRaisesEmptyReturns ==
    (called = "get_fc_hbas" /\ IsOk)
        => /\ execResult.out = None
                => (ret.kind = "raise" /\ ret.exc.type = "RuntimeError")
           /\ execResult.out = Some(<< >>) => ret = Return(<< >>, FALSE)

C2_Witness ==
    called = "get_fc_hbas" /\ IsOk /\ execResult.out = None
        /\ ret.kind = "raise"

\* C3: when execute() reports tool-not-found (exit code 96, or errno ENOENT),
\* get_fc_hbas returns the empty sequence and raises nothing, and so do
\* get_fc_wwpns and get_fc_wwnns.
C3_ToolNotFoundReturnsEmpty ==
    (called # "" /\ ToolNotFound)
        => (ret.kind = "return" /\ ret.value = << >> /\ ret.exc = NoExc)

C3_Witness ==
    called = "get_fc_wwpns" /\ ToolNotFound /\ ret.kind = "return"
        /\ execResult.kind = "ProcessExecutionError"

\* The input as the claims describe it: its lines, blank lines, and the
\* parts of a line before and after its first `=`.
InputLines == Split(Text, "\n")
InputBody == SubSeq(InputLines, 3, Len(InputLines))
IsBlank(l) == \A i \in 1..Len(l) : l[i] \in Whitespace
EqCount(l) == Cardinality({i \in 1..Len(l) : l[i] = "="})
FirstEq(l) == CHOOSE i \in 1..Len(l) :
                  l[i] = "=" /\ \A j \in 1..(i - 1) : l[j] # "="
LeftOf(l) == SubSeq(l, 1, FirstEq(l) - 1)
RightOf(l) == SubSeq(l, FirstEq(l) + 1, Len(l))
NotSpace(c) == c # " "
NotQuote(c) == c # "\""
NormKey(k) == SelectSeq(Strip(k), NotSpace)
NormVal(v) == SelectSeq(Strip(v), NotQuote)

\* A line of the form key = "value"; with single, one that has no second `=`.
IsKVLine(l, single) ==
    /\ EqCount(l) >= 1
    /\ single => EqCount(l) = 1
    /\ Strip(LeftOf(l)) # << >>
    /\ LET r == Strip(RightOf(l)) IN
           Len(r) >= 2 /\ r[1] = "\"" /\ r[Len(r)] = "\""

\* How many of the first lines of ls are key lines, and blank lines.
RECURSIVE LeadingKV(_, _)
LeadingKV(ls, single) ==
    IF ls # << >> /\ IsKVLine(Head(ls), single)
    THEN 1 + LeadingKV(Tail(ls), single) ELSE 0
RECURSIVE LeadingBlank(_)
LeadingBlank(ls) ==
    IF ls # << >> /\ IsBlank(Head(ls)) THEN 1 + LeadingBlank(Tail(ls)) ELSE 0

\* The blocks of ls when ls is nothing but blocks of key lines, each followed
\* by two consecutive blank lines (or more); ok is FALSE when it is not.
RECURSIVE BlocksOf(_, _)
BlocksOf(ls, single) ==
    IF ls = << >> THEN [ok |-> TRUE, blocks |-> << >>]
    ELSE LET n == LeadingKV(ls, single)
             m == LeadingBlank(SubSeq(ls, n + 1, Len(ls)))
         IN  IF n >= 1 /\ m >= 2
             THEN LET rest == BlocksOf(SubSeq(ls, n + m + 1, Len(ls)), single)
                  IN  [ok |-> rest.ok,
                       blocks |-> <<SubSeq(ls, 1, n)>> \o rest.blocks]
             ELSE [ok |-> FALSE, blocks |-> << >>]

\* The record a block stands for: each key of the block mapped to the value
\* of the last line that gives it.
RecordOf(b) ==
    [k \in {NormKey(LeftOf(b[i])) : i \in 1..Len(b)} |->
        LET i == CHOOSE j \in 1..Len(b) :
                     /\ NormKey(LeftOf(b[j])) = k
                     /\ \A h \in (j + 1)..Len(b) : NormKey(LeftOf(b[h])) # k
        IN  NormVal(RightOf(b[i]))]

WellFormed(single) ==
    /\ called = "get_fc_hbas"
    /\ HasText
    /\ Len(InputLines) >= 2
    /\ BlocksOf(InputBody, single).ok

OneRecordPerBlock(single) ==
    WellFormed(single) =>
        LET bs == BlocksOf(InputBody, single).blocks IN
        /\ ret.kind = "return"
        /\ ret.value = [i \in 1..Len(bs) |-> RecordOf(bs[i])]

\* C4 as stated: for two header lines followed by blocks of key = "value"
\* lines, each block followed by two consecutive blank lines, get_fc_hbas
\* returns one record per block, in order, holding exactly the keys and
\* values of that block.
C4_OneRecordPerBlock == OneRecordPerBlock(FALSE)

\* C4 amended: the same, for blocks none of whose lines has a second `=`.
C4_OneRecordPerSingleEqBlock == OneRecordPerBlock(TRUE)

C4_Witness ==
    /\ WellFormed(TRUE)
    /\ Len(ret.value) = 2
    /\ DOMAIN ret.value[1] # DOMAIN ret.value[2]
    /\ \E i \in 1..2 : Cardinality(DOMAIN ret.value[i]) = 2

\* The parsing loop's state after n lines of the input's body.
StateAt(n) == ParseLoop(InputBody, n)

\* C5: a record is appended only at the second of two consecutive blank lines
\* and only when it is non-empty; the empty input gives the empty sequence;
\* a single blank line leaves the record under construction as it is; no
\* returned record is empty; and the record under construction at the end
\* of the input is not returned.
C5_AppendOnlyAtDoubleBlank ==
    (called = "get_fc_hbas" /\ HasText) =>
        /\ ret.kind = "return"
        /\ Text = << >> => ret.value = << >>
        /\ \A n \in 1..Len(InputBody) :
              LET pre == StateAt(n - 1)
                  post == StateAt(n)
                  double == /\ n >= 2
                            /\ IsBlank(InputBody[n])
                            /\ IsBlank(InputBody[n - 1])
              IN  /\ post.hbas # pre.hbas =>
                        /\ double
                        /\ pre.hba # EmptyDict
                        /\ post.hbas = Append(pre.hbas, pre.hba)
                  /\ (IsBlank(InputBody[n]) /\ ~double) =>
                        (post.hba = pre.hba /\ post.hbas = pre.hbas)
        /\ \A i \in 1..Len(ret.value) : DOMAIN ret.value[i] # {}
        /\ ret.value = StateAt(Len(InputBody)).hbas

C5_Witness ==
    /\ called = "get_fc_hbas"
    /\ HasText
    /\ Len(ret.value) = 1
    /\ StateAt(Len(InputBody)).hba # EmptyDict
    /\ \E n \in 2..Len(InputBody) :
          /\ IsBlank(InputBody[n])
          /\ ~IsBlank(InputBody[n - 1])
          /\ StateAt(n).hba # EmptyDict

\* The lines of the body that are no record boundary.
NonBoundary(n) ==
    ~(/\ n >= 2
      /\ IsBlank(InputBody[n])
      /\ IsBlank(InputBody[n - 1]))

Sets(n) ==
    LET line == InputBody[n] IN
    /\ StateAt(n).hba = DictSet(StateAt(n - 1).hba, NormKey(LeftOf(line)),
                                NormVal(RightOf(line)))
    /\ StateAt(n).hbas = StateAt(n - 1).hbas

Ignored(n) ==
    /\ StateAt(n).hba = StateAt(n - 1).hba
    /\ StateAt(n).hbas = StateAt(n - 1).hbas

\* C10 as stated: every non-boundary line with at least one `=` sets
\* record[key] = value, split at its first `=`; only lines without `=` are
\* ignored.
C10_SplitAtFirstEq ==
    (called = "get_fc_hbas" /\ HasText) =>
        \A n \in 1..Len(InputBody) :
            NonBoundary(n) =>
                IF EqCount(InputBody[n]) >= 1 THEN Sets(n) ELSE Ignored(n)

\* C10 amended: every non-boundary line with exactly one `=` sets
\* record[key] = value; lines with no `=` or with more than one are ignored.
C10_SingleEqSets ==
    (called = "get_fc_hbas" /\ HasText) =>
        \A n \in 1..Len(InputBody) :
            NonBoundary(n) =>
                IF EqCount(InputBody[n]) = 1 THEN Sets(n) ELSE Ignored(n)

C10_Witness ==
    /\ called = "get_fc_hbas"
    /\ HasText
    /\ \E n, m \in 1..Len(InputBody) :
          /\ EqCount(InputBody[n]) = 1
          /\ EqCount(InputBody[m]) > 1
          /\ n < m
          /\ StateAt(m).hba # EmptyDict
    /\ ret.value # << >>

\* What get_fc_hbas returns to the extractors.
Hbas == get_fc_hbas(execResult)
Field == IF called = "get_fc_wwpns" THEN K_port_name ELSE K_node_name
IsOnline(h) == K_port_state \in DOMAIN h /\ h[K_port_state] = S_Online
Complete ==
    /\ Hbas.kind = "return"
    /\ \A i \in 1..Len(Hbas.value) :
          {K_port_state, K_port_name, K_node_name} \subseteq DOMAIN Hbas.value[i]

DropLeading0x(v) ==
    IF Len(v) >= 2 /\ v[1] = "0" /\ v[2] = "x" THEN SubSeq(v, 3, Len(v)) ELSE v

\* The attribute of the Online records of hs, in order, each with a leading
\* 0x removed.
RECURSIVE OnlineValues(_, _)
OnlineValues(hs, field) ==
    IF hs = << >> THEN << >>
    ELSE (IF Head(hs)[K_port_state] = S_Online
          THEN <<DropLeading0x(Head(hs)[field])>>
          ELSE << >>)
         \o OnlineValues(Tail(hs), field)

\* C6: when every record has port_state, port_name and node_name,
\* get_fc_wwpns (get_fc_wwnns) returns the port_name (node_name) of the
\* records whose port_state is Online, in record order, each with only a
\* leading 0x removed.
C6_OnlineValuesLeading0x ==
    (called \in {"get_fc_wwpns", "get_fc_wwnns"} /\ Complete) =>
        /\ ret.kind = "return"
        /\ ret.value = OnlineValues(Hbas.value, Field)

\* C7: when a record whose port_state is Online has no port_name
\* (get_fc_wwpns) or no node_name (get_fc_wwnns), the call raises; it returns
\* no list, neither one that skips the record nor a partial one.
C7_MissingFieldRaises ==
    (/\ called \in {"get_fc_wwpns", "get_fc_wwnns"}
     /\ Hbas.kind = "return"
     /\ \E i \in 1..Len(Hbas.value) :
           IsOnline(Hbas.value[i]) /\ Field \notin DOMAIN Hbas.value[i])
        => (ret.kind = "raise" /\ ret.exc.type = "KeyError"
            /\ ret.value = << >>)

C7_Witness ==
    /\ called = "get_fc_wwnns"
    /\ Hbas.kind = "return"
    /\ Len(Hbas.value) = 2
    /\ IsOnline(Hbas.value[1])
    /\ K_node_name \in DOMAIN Hbas.value[1]
    /\ IsOnline(Hbas.value[2])
    /\ K_node_name \notin DOMAIN Hbas.value[2]
    /\ ret = Raise(KeyError("node_name"))

(***************************************************************************)
(* Properties of ConfigDriveBuilder.                                       *)
(***************************************************************************)

\* C8: leaving the with block without an exception calls cleanup() exactly
\* once (the recorded image file is gone when that call returns, and is as it
\* was when that call raises, its error then leaving the block); leaving the
\* block because of an exception calls cleanup() not at all, the exception
\* reaches the caller, and a recorded image file stays as it was.
C8_CleanupUnlessException ==
    scope = "exited" =>
        IF inflight = None
        THEN /\ exitCleanups = 1
             /\ (last = "exit" /\ imagefile # None) =>
                    IF propagated = None
                    THEN fs[imagefile[1]].type = "absent"
                    ELSE fs[imagefile[1]] = before[imagefile[1]]
        ELSE /\ exitCleanups = 0
             /\ propagated = inflight
             /\ (last = "exit" /\ imagefile # None)
                    => fs[imagefile[1]] = before[imagefile[1]]

C8_Witness ==
    /\ scope = "exited"
    /\ last = "exit"
    /\ inflight # None
    /\ propagated = inflight
    /\ imagefile = Some(ImagePath)
    /\ fs[ImagePath].type = "file"

\* The make_drive call that just ended: the file of its entry i, the payload
\* that the first k entries leave in that file, and whether a component of
\* the file's directory was a file when the call began.
FileOf(i) == join(drive.path, drive.files[i][1])
PayloadAt(i, k) ==
    LET j == CHOOSE h \in 1..k :
                 /\ drive.files[h][1] = drive.files[i][1]
                 /\ \A g \in (h + 1)..k : drive.files[g][1] # drive.files[i][1]
    IN  drive.files[j][2]
DirBlocked(i) ==
    \E q \in Prefixes(dirname(FileOf(i))) : before[q].type = "file"

\* The call raised in the write of entry k, after open(..., 'wb') succeeded,
\* and entry i has the path of entry k.
Reopened(i, k) ==
    /\ drive.files[i][1] = drive.files[k][1]
    /\ drive.failAt = k
    /\ drive.fault.step = "write"
HoldsPartOf(node, data) ==
    \E w \in 0..Len(data) : node = File(SubSeq(data, 1, w))

\* What C9 says of a make_drive call.  With sparing, the file an earlier
\* entry wrote and the failing write reopened holds none, part or all of the
\* failing entry's payload; without, every earlier entry's file holds what
\* the earlier entries wrote.
MakeDriveWrites(sparing) ==
    last = "make_drive" =>
        LET n == Len(drive.files)
            k == drive.failed
        IN  /\ mdfiles = drive.files
            /\ ((drive.failAt # 0) \/ (\E i \in 1..n : DirBlocked(i)))
                   => (drive.kind = "raise" /\ k \in 1..n)
            /\ drive.kind = "return" =>
                   \A i \in 1..n : fs[FileOf(i)] = File(PayloadAt(i, n))
            /\ drive.kind = "raise" =>
                   /\ drive.failAt # 0 => k <= drive.failAt
                   /\ \A i \in 1..(k - 1) :
                         IF sparing /\ Reopened(i, k)
                         THEN HoldsPartOf(fs[FileOf(i)], drive.files[k][2])
                         ELSE fs[FileOf(i)] = File(PayloadAt(i, k - 1))
                   /\ \A j \in (k + 1)..n :
                         (\A i \in 1..k : drive.files[i][1] # drive.files[j][1])
                             => \/ fs[FileOf(j)].type # "file"
                                \/ fs[FileOf(j)] = before[FileOf(j)]

\* C9 as stated: make_drive leaves mdfiles unchanged; when it returns, each
\* entry's file holds that entry's payload, the later of two entries with one
\* path winning and files that were there overwritten; when an entry's
\* directory creation or write fails, it raises, the files of all earlier
\* entries hold their payloads and no later entry is written.
C9_EarlierFilesKept == MakeDriveWrites(FALSE)

\* C9 amended: the same, except that when it is the write of the payload
\* that fails, after open(..., 'wb') succeeded, a file that an earlier entry
\* with the failing entry's path wrote holds none, part or all of the failing
\* entry's payload.
C9_EarlierFilesKeptElsewhere == MakeDriveWrites(TRUE)

C9_Witness ==
    /\ last = "make_drive"
    /\ drive.kind = "raise"
    /\ Len(drive.files) = 3
    /\ drive.failed = 2
    /\ before[FileOf(1)] = File(<<"o", "l", "d">>)
    /\ fs[FileOf(1)] = File(drive.files[1][2])
    /\ drive.files[3][1] \notin {drive.files[1][1], drive.files[2][1]}
    /\ fs[FileOf(3)].type = "absent"

====
